---- MODULE Spec2Model ----
(***************************************************************************)
(* Model of the suite runner of ht: RawSuite.Execute (suite/raw.go) driving *)
(* Suite.Iterate (suite/suite.go) with the mock lifecycle around each      *)
(* element (startMocks, the monitor consumer goroutine, analyseMocks); and  *)
(* of the text conditions, the XML check and the file:// and bash://        *)
(* pseudo-requests (condition/cond.go, ht/xml.go, ht/special.go).           *)
(***************************************************************************)
EXTENDS Integers, Sequences, FiniteSets, Bags, TLC

\* ---------------------------------------------------------------------
\* ht.Status: NotRun < Skipped < Pass < Fail < Error < Bogus
NotRun == 0
Skipped == 1
Pass == 2
Fail == 3
Error == 4
Bogus == 5

\* ---------------------------------------------------------------------
\* Bounds of the model.  Two families of runs are explored: suites of up to
\* MaxTests elements whose elements declare up to MaxSuiteMocks mocks and get
\* up to MaxSuiteCalls requests on their mock servers in the whole run, and
\* suites of one element with up to MaxMocks mocks and MaxCalls requests.
MaxTests == 2
MaxSuiteMocks == 1
MaxSuiteCalls == 1
MaxMocks == 2
MaxCalls == 2
\* The subjects of the conditions are the strings over Alphabet of up to
\* MaxLen characters; Count ranges over -1..MaxCount.
MaxLen == 3
MaxCount == 2

VARIABLES
    setup, main, teardown,  \* len(rs.Setup), len(rs.Main), len(rs.Teardown)
    pc,                     \* position of Execute/Iterate
    rt,                     \* the raw element of the current loop iteration
    test,                   \* the *ht.Test of the current loop iteration
    Tests,                  \* suite.Tests
    globals,                \* suite.globals
    overall, errors,        \* locals of Iterate
    i, setupfailures,       \* captured locals of Execute's executor
    stopMocks,              \* state of the stop channel / mock server
    running,                \* elements whose mock server is listening
    monitor,                \* "nil", "open" or "closed"
    buffer,                 \* the reports the monitor channel itself holds
    inflight,               \* bag of reports whose handler blocks in monitor <- report
    consumer,               \* the goroutine of startMocks: "none", "recv", "append", "done"
    held,                   \* the report the consumer received and has not appended yet
    mockResult,             \* the slice the consumer appends to
    received,               \* history: reports in the order the consumer received them
    subsuite,               \* the sub-suite analyseMocks attaches to the test
    calls,                  \* number of requests the mock servers got so far
    mockLimit, callLimit,   \* the bounds of this run on mocks per element and on requests
    SuiteStatus, SuiteError, FinalVariables, \* Status, Error, FinalVariables of the Suite
    Variables,              \* suite.Variables
    KeepCookies,            \* rs.KeepCookies
    jar,                    \* the jar argument of Execute / NewFromRaw
    Jar,                    \* suite.Jar
    exstat,                 \* what the executor returned for the current element
    call,                   \* the function under study and its input
    result,                 \* what it returned or left in the Response
    disk                    \* the file a file:// request names, and its directory

\* The variables of the suite runner
suiteVars == <<setup, main, teardown, pc, rt, test, Tests, globals, overall, errors,
               i, setupfailures, stopMocks, running, monitor, inflight, consumer,
               held, mockResult, received, subsuite, calls, mockLimit, callLimit,
               SuiteStatus, SuiteError, FinalVariables, KeepCookies, jar, Jar,
               exstat, buffer, Variables>>

\* The variables of the checks and pseudo-requests
pureVars == <<call, result, disk>>

vars == <<suiteVars, pureVars>>

N == setup + main + teardown

Max(a, b) == IF a >= b THEN a ELSE b

\* ---------------------------------------------------------------------
\* Variables extracted by the tests: element k extracts its own index k
\* into the variable VarOf(k) and into the variable A, which every element
\* writes; 0 is the initial assignment.
VarNames == {"A", "B"}

VarOf(k) == IF k % 2 = 1 THEN "A" ELSE "B"

Extract(k) == [n \in {VarOf(k), "A"} |-> k]

NoTest == [id |-> 0, status |-> NotRun, error |-> "nil", ran |-> FALSE,
           pre |-> NotRun, ex |-> NotRun, scope |-> [n \in VarNames |-> 0],
           jar |-> "nil"]

NoRaw == [disabled |-> FALSE, nmocks |-> 0]

EmptySuite == [Tests |-> <<>>, Status |-> NotRun, Error |-> "nil"]

\* var ErrAbortExecution = errors.New("Abort Execution")
ErrAbortExecution == "Abort Execution"

\* A variant that hands on the caller's jar whether KeepCookies is set or not.
NewJarOfCaller(keep, j) ==
    IF keep /\ j = "nil" THEN "private" ELSE j
\* NewFromRaw: create cookie jar if needed.  The caller passes no jar ("nil")
\* or its own ("caller"); "private" is the jar NewFromRaw makes.
NewJar(keep, j) ==
    IF keep
    THEN (IF j = "nil" THEN "private" ELSE j)
    ELSE "nil"

\* The state NewFromRaw and the first lines of Execute and Iterate set up.
Constructed ==
    /\ Jar = NewJar(KeepCookies, jar)
    /\ pc = "convert"
    /\ rt = NoRaw
    /\ test = NoTest
    /\ Tests = <<>>
    /\ globals = [n \in VarNames |-> 0]
    /\ Variables = [n \in VarNames |-> 0]
    /\ overall = NotRun
    /\ errors = <<>>
    /\ i = 0
    /\ setupfailures = FALSE
    /\ exstat = "nil"
    /\ stopMocks = "nil"
    /\ running = {}
    /\ monitor = "nil"
    /\ buffer = <<>>
    /\ inflight = EmptyBag
    /\ consumer = "none"
    /\ held = <<>>
    /\ mockResult = <<>>
    /\ received = <<>>
    /\ subsuite = EmptySuite
    /\ calls = 0
    /\ SuiteStatus = NotRun
    /\ SuiteError = <<>>
    /\ FinalVariables = [n \in {} |-> 0]

\* No check or pseudo-request is under study.
NoCall == [op |-> "none"]

NoResult == [done |-> FALSE]

NoDisk == [dir |-> "none"]

PureIdle ==
    /\ call = NoCall
    /\ result = NoResult
    /\ disk = NoDisk

\* Three families of runs: suites with mocks, one element with more mocks,
\* and suites without mocks under every combination of KeepCookies and jar.
Init ==
    /\ setup \in 0..MaxTests
    /\ main \in 0..MaxTests
    /\ teardown \in 0..MaxTests
    /\ \/ /\ setup + main + teardown <= MaxTests
          /\ mockLimit = MaxSuiteMocks
          /\ callLimit = MaxSuiteCalls
          /\ KeepCookies = FALSE
          /\ jar = "nil"
       \/ /\ setup + main + teardown = 1
          /\ mockLimit = MaxMocks
          /\ callLimit = MaxCalls
          /\ KeepCookies = FALSE
          /\ jar = "nil"
       \/ /\ setup + main + teardown <= MaxTests
          /\ mockLimit = 0
          /\ callLimit = 0
          /\ KeepCookies \in BOOLEAN
          /\ jar \in {"nil", "caller"}
    /\ Constructed
    /\ PureIdle

\* ---------------------------------------------------------------------
\* RawSuite.Execute: the position predicates of the executor
isSetup(n) == n <= setup

isMain(n) == n > setup /\ n <= setup + main

\* A variant that takes the teardown tests for main tests.
isSetupOrMainOrTeardown(n) == n <= setup + main + teardown

isSetupOrMain(n) == n <= setup + main

\* rs.tests[n-1]: the executor's counter is the loop position of Iterate,
\* so the raw test it looks at is the one of the current iteration.
RawTestAt(n) == rt

\* A variant that skips the Setup and Main tests whether Setup failed or not.
SkipCaseSetupOrMain(t, n) ==
    \/ t.status = Skipped
    \/ RawTestAt(n).disabled
    \/ isSetupOrMain(n)
\* The switch of the executor: the cases in which the test is skipped.
SkipCase(t, n) ==
    \/ t.status = Skipped
    \/ RawTestAt(n).disabled
    \/ (setupfailures /\ isSetupOrMain(n))

\* Outcomes of ht.Test.Run on a test that is not Bogus.
RunOutcomes == {Pass, Fail, Error, Bogus}

RunError(st) == IF st > Pass THEN "error" ELSE "nil"

\* A variant that forgets to record the failure of a setup test.
SetupFailureForgotten(st, n) == setupfailures

\* setupfailures after the executor handled a test that left it with status st
SetupFailure(st, n) == setupfailures \/ (st > Pass /\ isSetup(n))

\* ---------------------------------------------------------------------
\* Suite.Iterate, loop body part 1: scopes and RawTest.ToTest
\* A variant that builds the scope from the initial assignment suite.Variables.
callScopeInitial == [n \in VarNames |-> 0]

\* scope.New(suite.globals, rt.contextVars, true), for an element without
\* variables of its own
callScope == globals

ToTest(ok, k) ==
    IF ok
    THEN [NoTest EXCEPT !.id = k, !.scope = callScope]
    ELSE [NoTest EXCEPT !.id = k, !.scope = callScope, !.status = Bogus,
                        !.pre = Bogus, !.error = "error"]

Convert ==
    /\ pc = "convert"
    /\ Len(Tests) < N
    /\ \E d \in BOOLEAN, m \in 0..mockLimit, ok \in BOOLEAN :
          /\ rt' = [disabled |-> d, nmocks |-> m]
          /\ test' = [ToTest(ok, Len(Tests) + 1) EXCEPT !.jar = Jar]
    /\ pc' = "startMocks"
    /\ UNCHANGED <<pureVars, Variables, buffer, exstat, KeepCookies, jar, Jar, mockLimit, callLimit, setup, main, teardown, Tests, globals, overall, errors, i,
                   setupfailures, stopMocks, running, monitor, inflight,
                   consumer, held, mockResult, received, subsuite, calls,
                   SuiteStatus, SuiteError, FinalVariables>>

\* ---------------------------------------------------------------------
\* mock.Serve: the servers of the element listen from the return of Serve
\* until the stop channel has answered.
Serve(r, k) == r \cup {k}

Shutdown(r, k) == r \ {k}

\* ---------------------------------------------------------------------
\* startMocks and the error handling of its caller
MarkBogus(t, e) == [t EXCEPT !.status = Bogus, !.pre = Bogus, !.error = e]

\* A variant that calls the executor unless the test is bogus.
AfterStartMocksUnlessBogus == IF test'.status = Bogus THEN "update" ELSE "exec"

\* exstat := executor(test), whatever the status of the test
AfterStartMocks == "exec"

StartMocks ==
    /\ pc = "startMocks"
    /\ \/ /\ rt.nmocks = 0
          /\ UNCHANGED <<test, stopMocks, monitor, consumer, running>>
       \/ /\ rt.nmocks > 0
          /\ test' = MarkBogus(test, "error")
          /\ UNCHANGED <<stopMocks, monitor, consumer, running>>
       \/ /\ rt.nmocks > 0
          /\ stopMocks' = "serving"
          /\ running' = Serve(running, test.id)
          /\ monitor' = "open"
          /\ consumer' = "recv"
          /\ UNCHANGED test
    /\ pc' = AfterStartMocks
    /\ UNCHANGED <<pureVars, Variables, buffer, exstat, KeepCookies, jar, Jar, mockLimit, callLimit, setup, main, teardown, rt, Tests, globals, overall, errors,
                   i, setupfailures, inflight, held, mockResult, received,
                   subsuite, calls, SuiteStatus, SuiteError, FinalVariables>>

\* ---------------------------------------------------------------------
\* The executor of RawSuite.Execute, called by Iterate
Executed(t, st, didrun) ==
    [t EXCEPT !.status = st, !.ex = st, !.ran = didrun,
              !.error = IF didrun THEN RunError(st) ELSE @]

\* A variant that does not run non-bogus tests only, but all.
RunsAlways(t) == TRUE

\* if test.Result.Status != ht.Bogus { ... test.Run() }
Runs(t) == t.status # Bogus

\* A variant that closes the monitor channel without the stop handshake.
AfterExecutorClose == IF stopMocks # "nil" THEN "close" ELSE "update"

\* A variant that forgets to stop the mocks.
AfterExecutorNoStop == "update"

\* if stopMocks != nil { stop and analyse the mocks }
AfterExecutor == IF stopMocks # "nil" THEN "stopSend" ELSE "update"

Executor ==
    /\ pc = "exec"
    /\ i' = i + 1
    /\ IF SkipCase(test, i + 1)
       THEN /\ test' = Executed(test, Skipped, FALSE)
            /\ UNCHANGED setupfailures
       ELSE /\ \E out \in (IF Runs(test) THEN RunOutcomes ELSE {test.status}) :
                  test' = Executed(test, out, Runs(test))
            /\ setupfailures' = SetupFailure(test'.status, i + 1)
    /\ exstat' = "nil"
    /\ pc' = AfterExecutor
    /\ UNCHANGED <<pureVars, Variables, buffer, KeepCookies, jar, Jar, mockLimit, callLimit, setup, main, teardown, rt, Tests, globals, overall, errors,
                   stopMocks, running, monitor, inflight, consumer, held,
                   mockResult, received, subsuite, calls, SuiteStatus,
                   SuiteError, FinalVariables>>

\* ---------------------------------------------------------------------
\* Reports on the monitor channel.  A mock handler reports under the name
\* startMocks gave the mock, "Mock <serial>: <name>", the not-found handler
\* under "Not Found <url>" and without a status.
MockName(serial) == [prefix |-> "Mock ", serial |-> serial]

NotFoundName == [prefix |-> "Not Found ", serial |-> -1]

MockStatuses == {Pass, Fail, Error}

ReportError(st) == IF st > Pass THEN "error" ELSE "nil"

MockReport(serial, st) ==
    [name |-> MockName(serial), status |-> st, error |-> ReportError(st)]

NotFoundReport == [name |-> NotFoundName, status |-> NotRun, error |-> "nil"]

\* A variant with a channel that takes every report of the run at once.
MonitorCapOfCalls == MaxCalls + MaxSuiteCalls

\* monitor = make(chan *ht.Test): the capacity of the channel
MonitorCap == 0

\* monitor <- report: the channel takes the report if it has room for it,
\* else the handler blocks until the consumer receives it.
Send(report) ==
    IF Len(buffer) < MonitorCap
    THEN buffer' = Append(buffer, report) /\ UNCHANGED inflight
    ELSE inflight' = inflight (+) SetToBag({report}) /\ UNCHANGED buffer

\* A request that matches the declared mock with the given serial number:
\* the handler of the mock sends its report on the monitor channel.
MockRequest ==
    /\ stopMocks = "serving"
    /\ calls < callLimit
    /\ \E serial \in 0..(rt.nmocks - 1), st \in MockStatuses :
          Send(MockReport(serial, st))
    /\ calls' = calls + 1
    /\ UNCHANGED <<pureVars, Variables, exstat, KeepCookies, jar, Jar, mockLimit, callLimit, setup, main, teardown, pc, rt, test, Tests, globals, overall,
                   errors, i, setupfailures, stopMocks, running, monitor,
                   consumer, held, mockResult, received, subsuite, SuiteStatus,
                   SuiteError, FinalVariables>>

\* A request that matches no mock: notFoundHandler of startMocks.
NotFoundRequest ==
    /\ stopMocks = "serving"
    /\ calls < callLimit
    /\ Send(NotFoundReport)
    /\ calls' = calls + 1
    /\ UNCHANGED <<pureVars, Variables, exstat, KeepCookies, jar, Jar, mockLimit, callLimit, setup, main, teardown, pc, rt, test, Tests, globals, overall,
                   errors, i, setupfailures, stopMocks, running, monitor,
                   consumer, held, mockResult, received, subsuite, SuiteStatus,
                   SuiteError, FinalVariables>>

\* The goroutine of startMocks: for report := range monitor { ... }
ConsumerReceive ==
    /\ consumer = "recv"
    /\ \/ /\ buffer = <<>>
          /\ monitor = "open"
          /\ \E r \in BagToSet(inflight) :
                /\ inflight' = inflight (-) SetToBag({r})
                /\ held' = <<r>>
                /\ received' = Append(received, r)
          /\ UNCHANGED buffer
       \/ /\ buffer # <<>>
          /\ held' = <<Head(buffer)>>
          /\ received' = Append(received, Head(buffer))
          /\ IF inflight = EmptyBag
             THEN buffer' = Tail(buffer) /\ UNCHANGED inflight
             ELSE \E r \in BagToSet(inflight) :
                     /\ inflight' = inflight (-) SetToBag({r})
                     /\ buffer' = Append(Tail(buffer), r)
    /\ consumer' = "append"
    /\ UNCHANGED <<pureVars, Variables, exstat, KeepCookies, jar, Jar, mockLimit, callLimit, setup, main, teardown, pc, rt, test, Tests, globals, overall,
                   errors, i, setupfailures, stopMocks, running, monitor,
                   mockResult, subsuite, calls, SuiteStatus, SuiteError,
                   FinalVariables>>

ConsumerAppend ==
    /\ consumer = "append"
    /\ mockResult' = Append(mockResult, held[1])
    /\ held' = <<>>
    /\ consumer' = "recv"
    /\ UNCHANGED <<pureVars, Variables, buffer, exstat, KeepCookies, jar, Jar, mockLimit, callLimit, setup, main, teardown, pc, rt, test, Tests, globals, overall,
                   errors, i, setupfailures, stopMocks, running, monitor,
                   inflight, received, subsuite, calls, SuiteStatus, SuiteError,
                   FinalVariables>>

\* The range loop ends when the channel is closed: close(monitoringDone)
ConsumerExit ==
    /\ consumer = "recv"
    /\ monitor = "closed"
    /\ buffer = <<>>
    /\ consumer' = "done"
    /\ UNCHANGED <<pureVars, Variables, buffer, exstat, KeepCookies, jar, Jar, mockLimit, callLimit, setup, main, teardown, pc, rt, test, Tests, globals, overall,
                   errors, i, setupfailures, stopMocks, running, monitor,
                   inflight, held, mockResult, received, subsuite, calls,
                   SuiteStatus, SuiteError, FinalVariables>>

\* ---------------------------------------------------------------------
\* Suite.Iterate, loop body part 2: stopping the mocks
\* stopMocks <- true
StopSend ==
    /\ pc = "stopSend"
    /\ stopMocks' = "stopping"
    /\ pc' = "stopRecv"
    /\ UNCHANGED <<pureVars, Variables, buffer, exstat, KeepCookies, jar, Jar, mockLimit, callLimit, setup, main, teardown, rt, test, Tests, globals, overall,
                   errors, i, setupfailures, running, monitor, inflight,
                   consumer, held, mockResult, received, subsuite, calls,
                   SuiteStatus, SuiteError, FinalVariables>>

\* mock.Serve: the servers are shut down once the requests in flight are
\* handled, then the stop channel answers.
ServersDown == inflight = EmptyBag

\* <-stopMocks
StopRecv ==
    /\ pc = "stopRecv"
    /\ ServersDown
    /\ stopMocks' = "stopped"
    /\ running' = Shutdown(running, test.id)
    /\ pc' = "close"
    /\ UNCHANGED <<pureVars, Variables, buffer, exstat, KeepCookies, jar, Jar, mockLimit, callLimit, setup, main, teardown, rt, test, Tests, globals, overall,
                   errors, i, setupfailures, monitor, inflight, consumer, held,
                   mockResult, received, subsuite, calls, SuiteStatus,
                   SuiteError, FinalVariables>>

\* close(monitor)
CloseMonitor ==
    /\ pc = "close"
    /\ monitor' = "closed"
    /\ pc' = "waitDone"
    /\ UNCHANGED <<pureVars, Variables, buffer, exstat, KeepCookies, jar, Jar, mockLimit, callLimit, setup, main, teardown, rt, test, Tests, globals, overall,
                   errors, i, setupfailures, stopMocks, running, inflight,
                   consumer, held, mockResult, received, subsuite, calls,
                   SuiteStatus, SuiteError, FinalVariables>>

\* A variant that does not wait for the consumer.
monitoringDoneIgnored == TRUE

\* <-monitoringDone
monitoringDone == consumer = "done"

WaitDone ==
    /\ pc = "waitDone"
    /\ monitoringDone
    /\ pc' = "analyse"
    /\ UNCHANGED <<pureVars, Variables, buffer, exstat, KeepCookies, jar, Jar, mockLimit, callLimit, setup, main, teardown, rt, test, Tests, globals, overall,
                   errors, i, setupfailures, stopMocks, running, monitor,
                   inflight, consumer, held, mockResult, received, subsuite,
                   calls, SuiteStatus, SuiteError, FinalVariables>>

\* ---------------------------------------------------------------------
\* Suite.updateStatus
updateStatus(s, t) ==
    IF t.status <= s.Status
    THEN s
    ELSE [s EXCEPT !.Status = t.status,
                   !.Error = IF t.error # "nil" THEN t.error ELSE @]

\* analyseMocks, first loop: the label a report is filed under, if any
IsMockLabel(name) == name.prefix = "Mock "

\* A variant that counts the mocks from one, as the messages to the user do.
LabelFromOne(serial) == MockName(serial + 1)

\* fmt.Sprintf("Mock %d", i)
Label(serial) == MockName(serial)

\* State of analyseMocks: the test's status and error, the sub-suite and the
\* set of actual invocations.
AnalysisStart(t, results) ==
    [status |-> t.status, error |-> t.error,
     sub |-> [Tests |-> results, Status |-> NotRun, Error |-> "nil"],
     actual |-> {}]

\* A variant that gives the test the status of every report, higher or not.
PropagateAlways(a, mt) ==
    [status |-> mt.status,
     error |-> mt.error,
     sub |-> updateStatus(a.sub, mt),
     actual |-> IF IsMockLabel(mt.name) THEN a.actual \cup {mt.name} ELSE a.actual]

\* Propagate state of mock invocations to main test.
Propagate(a, mt) ==
    [status |-> IF mt.status > a.status THEN mt.status ELSE a.status,
     error |-> IF mt.status > a.status THEN mt.error ELSE a.error,
     sub |-> updateStatus(a.sub, mt),
     actual |-> IF IsMockLabel(mt.name) THEN a.actual \cup {mt.name} ELSE a.actual]

RECURSIVE PropagateAll(_, _, _)
PropagateAll(a, results, k) ==
    IF k > Len(results) THEN a
    ELSE PropagateAll(Propagate(a, results[k]), results, k + 1)

\* analyseMocks, second loop: did we get all expected mocks?
NotCalled(serial) ==
    [name |-> MockName(serial), status |-> Error, error |-> "mock not called"]

Expect(a, serial) ==
    IF Label(serial) \in a.actual
    THEN a
    ELSE [a EXCEPT !.sub = updateStatus(
                      [a.sub EXCEPT !.Tests = Append(@, NotCalled(serial))],
                      NotCalled(serial))]

RECURSIVE ExpectAll(_, _, _)
ExpectAll(a, serial, nmocks) ==
    IF serial >= nmocks THEN a
    ELSE ExpectAll(Expect(a, serial), serial + 1, nmocks)

\* A variant that leaves the test alone.
DowngradeNever(a) == a

\* A variant that fails every test that did not fail by itself, run or not.
DowngradeUnlessFailed(a) ==
    IF a.sub.Status > Pass /\ a.status <= Pass
    THEN [a EXCEPT !.status = Fail, !.error = "error"]
    ELSE a

\* analyseMocks, the end: direct checks passed but mocks failed
Downgrade(a) ==
    IF a.sub.Status > Pass /\ a.status = Pass
    THEN [a EXCEPT !.status = Fail, !.error = "error"]
    ELSE a

analyseMocks(t, results, nmocks) ==
    Downgrade(ExpectAll(PropagateAll(AnalysisStart(t, results), results, 1), 0, nmocks))

AnalyseMocks ==
    /\ pc = "analyse"
    /\ LET a == analyseMocks(test, mockResult, rt.nmocks) IN
          /\ test' = [test EXCEPT !.status = a.status, !.error = a.error]
          /\ subsuite' = a.sub
    /\ pc' = "update"
    /\ UNCHANGED <<pureVars, Variables, buffer, exstat, KeepCookies, jar, Jar, mockLimit, callLimit, setup, main, teardown, rt, Tests, globals, overall, errors,
                   i, setupfailures, stopMocks, running, monitor, inflight,
                   consumer, held, mockResult, received, calls, SuiteStatus,
                   SuiteError, FinalVariables>>

\* ---------------------------------------------------------------------
\* Suite.Iterate, loop body part 3: variables and book-keeping
\* A variant that keeps the value a variable was given before.
updateVariablesOnce(g, t) ==
    IF t.status # Pass
    THEN g
    ELSE [n \in DOMAIN g |-> IF n \in DOMAIN Extract(t.id) /\ g[n] = 0
                             THEN Extract(t.id)[n] ELSE g[n]]

\* suite.globals[varname] = value, for every value test.Extract() yields
updateVariables(g, t) ==
    IF t.status # Pass
    THEN g
    ELSE [n \in DOMAIN g |-> IF n \in DOMAIN Extract(t.id) THEN Extract(t.id)[n] ELSE g[n]]

\* A variant that decides on the status the executor left, before the mocks
\* were analysed.
GlobalsAfterRun(g, t) ==
    IF t.ex = Pass
    THEN [n \in DOMAIN g |-> IF n \in DOMAIN Extract(t.id) THEN Extract(t.id)[n] ELSE g[n]]
    ELSE g

\* if test.Status == ht.Pass { suite.updateVariables(test) }
GlobalsAfter(g, t) == IF t.status = Pass THEN updateVariables(g, t) ELSE g

\* suite.Tests = append(suite.Tests, test); ex remembers the status the
\* executor left the test with.
Recorded(t) == [id |-> t.id, status |-> t.status, error |-> t.error, ex |-> t.ex,
                jar |-> t.jar]

\* A variant that goes on with the next element whatever the executor said.
AfterRecordContinue == "convert"

\* if exstat == ErrAbortExecution { break }
AfterRecord == IF exstat = ErrAbortExecution THEN "break" ELSE "convert"

Record ==
    /\ pc = "update"
    /\ globals' = GlobalsAfter(globals, test)
    /\ Tests' = Append(Tests, Recorded(test))
    /\ overall' = IF test.status > overall THEN test.status ELSE overall
    /\ errors' = IF test.error # "nil"
                 THEN Append(errors, [test |-> test.id, error |-> test.error])
                 ELSE errors
    /\ pc' = AfterRecord
    /\ exstat' = "nil"
    \* the locals of the loop body end with the iteration
    /\ rt' = NoRaw
    /\ test' = NoTest
    /\ mockResult' = <<>>
    /\ received' = <<>>
    /\ subsuite' = EmptySuite
    /\ stopMocks' = "nil"
    /\ monitor' = "nil"
    /\ consumer' = "none"
    /\ UNCHANGED <<pureVars, Variables, buffer, KeepCookies, jar, Jar, mockLimit, callLimit, setup, main, teardown, i, setupfailures, running, inflight,
                   held, calls, SuiteStatus, SuiteError, FinalVariables>>

\* Suite.Iterate after the loop
IterateEnd ==
    /\ \/ (pc = "convert" /\ Len(Tests) = N)
       \/ pc = "break"
    /\ SuiteStatus' = overall
    /\ SuiteError' = errors
    /\ FinalVariables' = globals
    /\ pc' = "summary"
    /\ UNCHANGED <<pureVars, Variables, buffer, exstat, KeepCookies, jar, Jar, mockLimit, callLimit, setup, main, teardown, rt, test, Tests, globals, overall,
                   errors, i, setupfailures, stopMocks, running, monitor,
                   inflight, consumer, held, mockResult, received, subsuite,
                   calls>>

\* ---------------------------------------------------------------------
\* RawSuite.Execute after Iterate: the overall status is computed from the
\* Setup and Main tests only.
\* A variant that summarises the teardown tests too.
SummarisedAll(tests) == 1..Len(tests)

Summarised(tests) == { k \in 1..Len(tests) : k <= N - teardown }

RECURSIVE MaxStatus(_, _)
MaxStatus(tests, ks) ==
    IF ks = {} THEN NotRun
    ELSE LET k == CHOOSE x \in ks : TRUE
         IN Max(tests[k].status, MaxStatus(tests, ks \ {k}))

\* A variant that collects the errors of the tests that did not pass only.
ErrorsOfFailed(tests, ks) ==
    SelectSeq([k \in 1..Len(tests) |->
                  [test |-> tests[k].id,
                   error |-> IF k \in ks /\ tests[k].status > Pass
                             THEN tests[k].error ELSE "nil"]],
              LAMBDA e : e.error # "nil")
ErrorsOf(tests, ks) ==
    SelectSeq([k \in 1..Len(tests) |->
                  [test |-> tests[k].id,
                   error |-> IF k \in ks THEN tests[k].error ELSE "nil"]],
              LAMBDA e : e.error # "nil")

ExecuteEnd ==
    /\ pc = "summary"
    /\ SuiteStatus' = MaxStatus(Tests, Summarised(Tests))
    /\ SuiteError' = ErrorsOf(Tests, Summarised(Tests))
    /\ pc' = "done"
    /\ UNCHANGED <<pureVars, Variables, buffer, exstat, KeepCookies, jar, Jar, mockLimit, callLimit, setup, main, teardown, rt, test, Tests, globals, overall,
                   errors, i, setupfailures, stopMocks, running, monitor,
                   inflight, consumer, held, mockResult, received, subsuite,
                   calls, FinalVariables>>

Next ==
    \/ Convert
    \/ StartMocks
    \/ Executor
    \/ MockRequest
    \/ NotFoundRequest
    \/ ConsumerReceive
    \/ ConsumerAppend
    \/ ConsumerExit
    \/ StopSend
    \/ StopRecv
    \/ CloseMonitor
    \/ WaitDone
    \/ AnalyseMocks
    \/ Record
    \/ IterateEnd
    \/ ExecuteEnd

Spec == Init /\ [][Next]_vars

\* ---------------------------------------------------------------------
\* Suite.Iterate called with an executor of another caller: it runs the test
\* unless it is bogus and returns nil or ErrAbortExecution.
AbortingExecutor ==
    /\ pc = "exec"
    /\ i' = i + 1
    /\ \E out \in (IF Runs(test) THEN RunOutcomes ELSE {test.status}),
          e \in {"nil", ErrAbortExecution} :
          /\ test' = Executed(test, out, Runs(test))
          /\ exstat' = e
    /\ pc' = AfterExecutor
    /\ UNCHANGED <<pureVars, Variables, buffer, KeepCookies, jar, Jar, mockLimit, callLimit, setup, main,
                   teardown, rt, Tests, globals, overall, errors, setupfailures,
                   stopMocks, running, monitor, inflight, consumer, held,
                   mockResult, received, subsuite, calls, SuiteStatus,
                   SuiteError, FinalVariables>>

\* A suite of up to MaxTests elements with up to MaxSuiteMocks mocks each; for
\* Iterate the elements are all alike, they are taken as Main elements.
InitIterate ==
    /\ setup = 0
    /\ main \in 0..MaxTests
    /\ teardown = 0
    /\ mockLimit = MaxSuiteMocks
    /\ callLimit = MaxSuiteCalls
    /\ KeepCookies = FALSE
    /\ jar = "nil"
    /\ Constructed
    /\ PureIdle

NextIterate ==
    \/ Convert
    \/ StartMocks
    \/ AbortingExecutor
    \/ MockRequest
    \/ NotFoundRequest
    \/ ConsumerReceive
    \/ ConsumerAppend
    \/ ConsumerExit
    \/ StopSend
    \/ StopRecv
    \/ CloseMonitor
    \/ WaitDone
    \/ AnalyseMocks
    \/ Record
    \/ IterateEnd

IterateSpec == InitIterate /\ [][NextIterate]_vars

\* Iterate with the scheduling of the Go runtime: a goroutine that can take
\* its next step takes it at some time.  This holds of the loop of Iterate
\* once the executor has returned, and of the consumer goroutine.
ShutdownFairness ==
    /\ WF_vars(ConsumerReceive)
    /\ WF_vars(ConsumerAppend)
    /\ WF_vars(ConsumerExit)
    /\ WF_vars(StopSend)
    /\ WF_vars(StopRecv)
    /\ WF_vars(CloseMonitor)
    /\ WF_vars(WaitDone)

ShutdownSpec == IterateSpec /\ ShutdownFairness

\* =====================================================================
\* Checks and pseudo-requests
\* =====================================================================
\* Strings are sequences of characters.
Alphabet == {"a", "b"}

Strs(n) == UNION {[1..k -> Alphabet] : k \in 0..n}

\* strings.HasPrefix, strings.HasSuffix
HasPrefix(s, prefix) ==
    Len(s) >= Len(prefix) /\ SubSeq(s, 1, Len(prefix)) = prefix

HasSuffix(s, suffix) ==
    Len(s) >= Len(suffix) /\ SubSeq(s, Len(s) - Len(suffix) + 1, Len(s)) = suffix

\* strings.Index(s, substr), for a non-empty substr
Index(s, substr) ==
    LET at == {k \in 1..(Len(s) - Len(substr) + 1) :
                  SubSeq(s, k, k + Len(substr) - 1) = substr}
    IN IF at = {} THEN -1 ELSE (CHOOSE k \in at : \A j \in at : k <= j) - 1

\* A variant that counts every position the text occurs at.
CountOverlapping(s, substr) ==
    Cardinality({k \in 1..(Len(s) - Len(substr) + 1) :
                    SubSeq(s, k, k + Len(substr) - 1) = substr})

\* strings.Count(s, substr), for a non-empty substr: scan from the left and
\* go on behind each occurrence found.
RECURSIVE CountFrom(_, _, _)
CountFrom(s, substr, k) ==
    IF k + Len(substr) - 1 > Len(s) THEN 0
    ELSE IF SubSeq(s, k, k + Len(substr) - 1) = substr
         THEN 1 + CountFrom(s, substr, k + Len(substr))
         ELSE CountFrom(s, substr, k + 1)

Count(s, substr) == CountFrom(s, substr, 1)

\* A regular expression is a non-empty sequence of character classes, like
\* `a`, `.` or `a.`; it matches at k if each character is in its class.
MatchAt(re, s, k) ==
    /\ k + Len(re) - 1 <= Len(s)
    /\ \A j \in 1..Len(re) : s[k + j - 1] \in re[j]

\* c.Regexp.FindStringIndex(s) # nil
FindStringIndex(re, s) == \E k \in 1..Len(s) : MatchAt(re, s, k)

\* len(c.Regexp.FindAllString(s, -1)): the successive matches from the left
RECURSIVE FindAllFrom(_, _, _)
FindAllFrom(re, s, k) ==
    IF k + Len(re) - 1 > Len(s) THEN 0
    ELSE IF MatchAt(re, s, k)
         THEN 1 + FindAllFrom(re, s, k + Len(re))
         ELSE FindAllFrom(re, s, k + 1)

FindAllString(re, s) == FindAllFrom(re, s, 1)

NoRegexp == [set |-> FALSE, pat |-> <<>>]

\* The conditions applied
Conditions ==
    [Prefix : {<<>>, <<"a">>, <<"a", "b">>},
     Suffix : {<<>>, <<"b">>, <<"a", "b">>},
     Contains : {<<>>, <<"a">>, <<"a", "a">>, <<"a", "b">>},
     Regexp : {NoRegexp,
               [set |-> TRUE, pat |-> <<{"a", "b"}>>],
               [set |-> TRUE, pat |-> <<{"b"}>>],
               [set |-> TRUE, pat |-> <<{"a"}, {"a", "b"}>>]},
     Count : -1..MaxCount,
     Min : {0, 2},
     Max : {0, 2}]

\* Condition.Fullfilled: "nil" or the kind of the error returned
Fullfilled(c, s) ==
    IF c.Prefix # <<>> /\ ~HasPrefix(s, c.Prefix) THEN "Bad prefix"
    ELSE IF c.Suffix # <<>> /\ ~HasSuffix(s, c.Suffix) THEN "Bad suffix"
    ELSE IF c.Contains # <<>> /\ c.Count = 0 /\ Index(s, c.Contains) = -1
         THEN "Missing text"
    ELSE IF c.Contains # <<>> /\ c.Count < 0 /\ Index(s, c.Contains) # -1
         THEN "Forbidden text"
    ELSE IF c.Contains # <<>> /\ c.Count > 0 /\ Count(s, c.Contains) # c.Count
         THEN "Found occurences"
    ELSE IF c.Regexp.set /\ c.Count = 0 /\ ~FindStringIndex(c.Regexp.pat, s)
         THEN "Missing match"
    ELSE IF c.Regexp.set /\ c.Count < 0 /\ FindStringIndex(c.Regexp.pat, s)
         THEN "Forbidden match"
    ELSE IF c.Regexp.set /\ c.Count > 0 /\ FindAllString(c.Regexp.pat, s) # c.Count
         THEN "Found matches"
    ELSE IF c.Min > 0 /\ Len(s) < c.Min THEN "Too short"
    ELSE IF c.Max > 0 /\ Len(s) > c.Max THEN "Too long"
    ELSE "nil"

\* The suite runner stands still while a check or pseudo-request is studied.
SuiteIdle ==
    /\ setup = 0
    /\ main = 0
    /\ teardown = 0
    /\ mockLimit = 0
    /\ callLimit = 0
    /\ KeepCookies = FALSE
    /\ jar = "nil"
    /\ Constructed

FullfilledCalls == [op : {"Fullfilled"}, c : Conditions, s : Strs(MaxLen)]
ApplyFullfilled ==
    /\ call.op = "Fullfilled"
    /\ ~result.done
    /\ result' = [done |-> TRUE, err |-> Fullfilled(call.c, call.s)]
    /\ UNCHANGED <<suiteVars, call, disk>>

\* =====================================================================
\* Properties
\* ---------------------------------------------------------------------
\* XML.Execute.  The call says whether the body could be read, whether it
\* parses as XML, whether the path selects an element and the string value
\* of that element; the check's Condition is one on prefix and content.
XMLCalls ==
    [op : {"XML"}, bodyErr : BOOLEAN, parses : BOOLEAN, selected : BOOLEAN,
     s : Strs(MaxLen),
     c : {c \in Conditions : /\ c.Suffix = <<>>
                             /\ ~c.Regexp.set
                             /\ c.Count = 0
                             /\ c.Min = 0
                             /\ c.Max = 0}]

XMLExecute(x) ==
    IF x.bodyErr THEN "CantCheck"
    ELSE IF ~x.parses THEN "parse error"
    ELSE IF ~x.selected THEN "No such element"
    ELSE LET err == "nil"                 \* what xmlpath.Parse returned
             e == Fullfilled(x.c, x.s)    \* e := x.Fulfilled(s)
         IN IF err # "nil" THEN e ELSE "nil"

ExecuteXML ==
    /\ call.op = "XML"
    /\ ~result.done
    /\ result' = [done |-> TRUE, err |-> XMLExecute(call)]
    /\ UNCHANGED <<suiteVars, call, disk>>
\* ---------------------------------------------------------------------
\* file:// pseudo-requests.  The disk holds the directory of the file the URL
\* names ("ok", "readonly" or "missing") and, if the file exists, its content
\* and whether it may be read and written.
Bodies == {<<"x">>, <<"y">>}

Disks ==
    [dir : {"ok", "readonly"}, exists : {TRUE}, readable : BOOLEAN,
     writable : BOOLEAN, content : Bodies]
    \cup [dir : {"ok", "readonly", "missing"}, exists : {FALSE}, readable : {FALSE},
          writable : {FALSE}, content : {<<>>}]

FileCalls ==
    [op : {"file"}, Host : {"", "localhost", "example.org"},
     Method : {"GET", "PUT", "DELETE"}, Body : Bodies, readErr : BOOLEAN]

\* The errors of os.Open, ioutil.WriteFile, os.Stat and os.Remove
Open(d) ==
    IF ~d.exists THEN "ENOENT"
    ELSE IF ~d.readable THEN "EACCES"
    ELSE "nil"

WriteFile(d) ==
    IF d.dir = "missing" THEN "ENOENT"
    ELSE IF d.exists THEN (IF d.writable THEN "nil" ELSE "EACCES")
    ELSE IF d.dir = "readonly" THEN "EACCES"
    ELSE "nil"

Stat(d) == IF d.exists THEN "nil" ELSE "ENOENT"

Remove(d) ==
    IF ~d.exists THEN "ENOENT"
    ELSE IF d.dir = "readonly" THEN "EACCES"
    ELSE "nil"

\* The faked http.Response with the status the request method makes of it
Response(code, body, bodyErr) ==
    [done |-> TRUE, err |-> "nil", StatusCode |-> code, BodyStr |-> body,
     BodyErr |-> bodyErr]

executeFileGET(t, d) ==
    IF Open(d) # "nil"
    THEN [resp |-> Response(404, <<Open(d)>>, "nil"), disk |-> d]
    ELSE [resp |-> Response(200, IF t.readErr THEN <<>> ELSE d.content,
                            IF t.readErr THEN "error" ELSE "nil"),
          disk |-> d]

executeFilePUT(t, d) ==
    IF WriteFile(d) # "nil"
    THEN [resp |-> Response(403, <<WriteFile(d)>>, "nil"), disk |-> d]
    ELSE [resp |-> Response(200, <<"Successfully wrote">>, "nil"),
          disk |-> IF d.exists
                   THEN [d EXCEPT !.content = t.Body]
                   ELSE [d EXCEPT !.exists = TRUE, !.readable = TRUE,
                                  !.writable = TRUE, !.content = t.Body]]

Removed(d) ==
    [d EXCEPT !.exists = FALSE, !.readable = FALSE, !.writable = FALSE,
              !.content = <<>>]

\* A variant that removes the file without looking for it first.
executeFileDELETENoStat(t, d) ==
    IF Remove(d) # "nil"
    THEN [resp |-> Response(403, <<Remove(d)>>, "nil"), disk |-> d]
    ELSE [resp |-> Response(200, <<"Successfully deleted">>, "nil"),
          disk |-> Removed(d)]

executeFileDELETE(t, d) ==
    IF Stat(d) # "nil"
    THEN [resp |-> Response(404, <<Stat(d)>>, "nil"), disk |-> d]
    ELSE IF Remove(d) # "nil"
    THEN [resp |-> Response(403, <<Remove(d)>>, "nil"), disk |-> d]
    ELSE [resp |-> Response(200, <<"Successfully deleted">>, "nil"),
          disk |-> Removed(d)]

\* fileAction.Execute
FileExecute(t, d) ==
    IF t.Host # "" /\ t.Host # "localhost" /\ t.Host # "127.0.0.1"
    THEN [resp |-> [done |-> TRUE, err |-> "file:// on remote host not implemented"],
          disk |-> d]
    ELSE IF t.Method = "GET" THEN executeFileGET(t, d)
    ELSE IF t.Method = "PUT" THEN executeFilePUT(t, d)
    ELSE executeFileDELETE(t, d)

ExecuteFile ==
    /\ call.op = "file"
    /\ ~result.done
    /\ result' = FileExecute(call, disk).resp
    /\ disk' = FileExecute(call, disk).disk
    /\ UNCHANGED <<suiteVars, call>>
\* ---------------------------------------------------------------------
\* bash:// pseudo-requests.  The call says which step of writing the script
\* to its temporary file fails, if any, whether cmd.Start fails, the error of
\* cmd.Wait ("nil" for exit status 0), whether the deadline of the context
\* has expired when Execute looks at it after Wait, and the output.
BashCalls ==
    [op : {"bash"}, temp : {"nil", "TempFile", "WriteString", "Close"},
     start : {"nil", "error"},
     wait : {"nil", "exit status 1", "signal: killed"},
     expired : BOOLEAN, out : {<<>>, <<"out">>}]

NoHeader == "none"

\* A variant that looks at the exit of the script before the deadline.
BashStatusExitFirst(t) ==
    IF t.wait = "nil" THEN 200
    ELSE IF t.expired THEN 408
    ELSE 500

\* if ctx.Err() == context.DeadlineExceeded { 408 } else if err != nil { 500 }
BashStatus(t) ==
    IF t.expired THEN 408
    ELSE IF t.wait # "nil" THEN 500
    ELSE 200

\* bashAction.Execute
BashExecute(t) ==
    IF t.temp # "nil"
    THEN [done |-> TRUE, err |-> t.temp, StatusCode |-> 0, ExitStatus |-> NoHeader,
          BodyStr |-> <<>>]
    ELSE IF t.start # "nil"
    THEN [done |-> TRUE, err |-> t.start, StatusCode |-> 200, ExitStatus |-> NoHeader,
          BodyStr |-> <<>>]
    ELSE [done |-> TRUE, err |-> "nil", StatusCode |-> BashStatus(t),
          ExitStatus |-> IF BashStatus(t) = 408 THEN NoHeader
                         ELSE IF BashStatus(t) = 500 THEN t.wait
                         ELSE "exit status 0",
          BodyStr |-> IF BashStatus(t) = 500
                      THEN t.out \o (IF Len(t.out) > 0 THEN <<"\n">> ELSE <<>>)
                                 \o <<t.wait>>
                      ELSE t.out]

ExecuteBash ==
    /\ call.op = "bash"
    /\ ~result.done
    /\ result' = BashExecute(call)
    /\ UNCHANGED <<suiteVars, call, disk>>
\* ---------------------------------------------------------------------
\* The special variable {{NOW ...}}.  A name is given by what nowTimeRe
\* captures of it: the delta (sign, decimal digits, unit) or none, and the
\* layout or none.  Times are seconds since the epoch; a formatted time is
\* the pair of the layout and the time it was formatted from.
RFC1123 == "Mon, 02 Jan 2006 15:04:05 MST"

Layouts == {"", "2006-01-02"}

Units == {"s", "m", "h", "d"}

Nows == {0, 100}

\* [1-9][0-9]* with at most two digits.
NowDigits ==
    {<<d>> : d \in 1..MaxCount} \cup {<<d, e>> : d \in 1..MaxCount, e \in {0}}

NoDelta == [sign |-> "", digits |-> <<>>, unit |-> ""]

NowCalls ==
    [op : {"NOW"}, now : Nows, layout : Layouts,
     delta : {NoDelta} \cup [sign : {"+", "-"}, digits : NowDigits, unit : Units]]

\* strconv.Atoi on a string of decimal digits.
RECURSIVE Atoi(_)
Atoi(digits) ==
    IF digits = <<>> THEN 0
    ELSE 10 * Atoi(SubSeq(digits, 1, Len(digits) - 1)) + digits[Len(digits)]

\* The switch on the unit in setNowVariable.
UnitSeconds(unit) ==
    CASE unit = "s" -> 1
      [] unit = "m" -> 60
      [] unit = "h" -> 60 * 60
      [] unit = "d" -> 24 * 26 * 60

Format(t, layout) == [layout |-> layout, unix |-> t]

setNowVariable(now, k) ==
    LET delta == k.delta
        n0 == Atoi(delta.digits)
        n1 == IF delta.sign = "-" THEN n0 * (0 - 1) ELSE n0
        off == IF delta = NoDelta THEN 0 ELSE n1 * UnitSeconds(delta.unit)
        format == IF k.layout # "" THEN k.layout ELSE RFC1123
    IN Format(now + off, format)

ResolveNow ==
    /\ call.op = "NOW"
    /\ ~result.done
    /\ result' = [done |-> TRUE, err |-> "nil",
                  value |-> setNowVariable(call.now, call)]
    /\ UNCHANGED <<suiteVars, call, disk>>
\* ---------------------------------------------------------------------
\* newReplacer.  Names and values are strings of characters; the map vars is
\* given as the sequence of its entries in the order the range statement
\* visits them, which is any order.
VarKeys ==
    {<<"#", "1">>, <<"#", "2">>, <<"#", "a">>, <<"#">>, <<"a">>, <<"1">>}

VarValues == {<<>>, <<"1">>, <<"-", "2">>, <<"a">>}

Entries == [k : VarKeys, v : VarValues]

ReplacerCalls ==
    [op : {"newReplacer"},
     vars : {es \in UNION {[1..n -> Entries] : n \in 0..MaxCount} :
                \A a, b \in DOMAIN es : a # b => es[a].k # es[b].k}]

DecimalDigits == {"0", "1", "2"}

DigitValue(c) == CASE c = "0" -> 0 [] c = "1" -> 1 [] c = "2" -> 2

\* strconv.ParseInt(s, 10, 64): an optional sign and at least one decimal
\* digit.  No string of the model leaves the range of 64 bits.
ParseInt(s) ==
    LET signed == s # <<>> /\ s[1] \in {"+", "-"}
        digits == IF signed THEN Tail(s) ELSE s
        value == Atoi([p \in DOMAIN digits |-> DigitValue(digits[p])])
    IN IF digits = <<>> \/ \E p \in DOMAIN digits : digits[p] \notin DecimalDigits
       THEN [err |-> "invalid syntax", n |-> 0]
       ELSE [err |-> "nil", n |-> IF signed /\ s[1] = "-" THEN 0 - value ELSE value]

NoReplacer == [err |-> "invalid syntax", str |-> "nil", fn |-> "nil"]

\* A name with '#' is put among the string substitutions as well.
IsIntegerNever(k) == FALSE

\* strings.HasPrefix(k, "#")
IsInteger(k) == k # <<>> /\ k[1] = "#"

\* The loop of newReplacer from entry p on; fn is the set of pairs of the map.
RECURSIVE newReplacerFrom(_, _, _, _)
newReplacerFrom(es, p, oldnew, fn) ==
    IF p > Len(es) THEN [err |-> "nil", str |-> oldnew, fn |-> fn]
    ELSE LET k == es[p].k
             v == es[p].v
         IN IF IsInteger(k)
            THEN LET o == ParseInt(Tail(k))
                     n == ParseInt(v)
                 IN IF o.err # "nil" \/ n.err # "nil" THEN NoReplacer
                    ELSE newReplacerFrom(es, p + 1, oldnew,
                             {e \in fn : e[1] # o.n} \cup {<<o.n, n.n>>})
            ELSE newReplacerFrom(es, p + 1,
                     oldnew \o <<(<<"{{">> \o k \o <<"}}">>), v>>, fn)

newReplacer(es) == newReplacerFrom(es, 1, <<>>, {})

ApplyNewReplacer ==
    /\ call.op = "newReplacer"
    /\ ~result.done
    /\ result' = [done |-> TRUE, repl |-> newReplacer(call.vars)]
    /\ UNCHANGED <<suiteVars, call, disk>>
\* ---------------------------------------------------------------------
\* Package populate.  A time.Duration is kept as whole seconds and the
\* nanoseconds above them.  A source is a value of the soup: its kind, and a
\* number n.  A float is the number n / 2; a string is the number n followed
\* by a unit, which is what time.ParseDuration reads.
Dur(s, ns) == [s |-> s, ns |-> ns]

Kinds == {"Duration", "Int64", "Int", "Float64", "String", "Bool"}

DurationUnits == {"", "ns", "ms", "s", "m", "x"}

Sources ==
    [kind : Kinds \ {"String"}, n : 0..MaxCount + 1, unit : {""}]
        \cup [kind : {"String"}, n : 0..MaxCount + 1, unit : DurationUnits]

\* time.ParseDuration
ParseDuration(src) ==
    CASE src.unit = "ns" -> [err |-> "nil", d |-> Dur(0, src.n)]
      [] src.unit = "ms" -> [err |-> "nil", d |-> Dur(0, 1000000 * src.n)]
      [] src.unit = "s" -> [err |-> "nil", d |-> Dur(src.n, 0)]
      [] src.unit = "m" -> [err |-> "nil", d |-> Dur(60 * src.n, 0)]
      [] src.unit = "" /\ src.n = 0 -> [err |-> "nil", d |-> Dur(0, 0)]
      [] src.unit = "" /\ src.n # 0 -> [err |-> "missing unit", d |-> Dur(0, 0)]
      [] OTHER -> [err |-> "unknown unit", d |-> Dur(0, 0)]

\* setDuration: the error returned and the value dst holds afterwards.
setDuration(dst, src) ==
    CASE src.kind = "Duration" -> [err |-> "nil", dst |-> Dur(0, src.n)]
      [] src.kind \in {"Int64", "Int"} -> [err |-> "nil", dst |-> Dur(src.n, 0)]
      [] src.kind = "Float64" ->
            \* the case sets dst and leaves the switch, for the final return
            [err |-> "cannot set",
             dst |-> Dur(src.n \div 2, 500000000 * (src.n % 2))]
      [] src.kind = "String" ->
            LET p == ParseDuration(src)
            IN IF p.err # "nil" THEN [err |-> "cannot set", dst |-> dst]
               ELSE [err |-> "nil", dst |-> p.d]
      [] OTHER -> [err |-> "cannot set", dst |-> dst]

DurationCalls ==
    [op : {"setDuration"}, dst : {Dur(0, 0), Dur(1, 0)}, src : Sources]

ApplySetDuration ==
    /\ call.op = "setDuration"
    /\ ~result.done
    /\ result' = [done |-> TRUE] @@ setDuration(call.dst, call.src)
    /\ UNCHANGED <<suiteVars, call, disk>>
\* ---------------------------------------------------------------------
\* populate.Strict and populate.Lax into a struct with an int field Count
\* and a time.Duration field Timeout.  The source is a map, given as the
\* sequence of its entries in the order MapKeys yields them.
Zero == [Count |-> 0, Timeout |-> Dur(0, 0)]

FieldSources ==
    {s \in Sources : /\ s.n = 1
                     /\ s.kind \in {"Int", "Float64", "String", "Bool"}
                     /\ s.unit \in {"", "s"}}

PopulateCalls ==
    [op : {"populate"}, strict : BOOLEAN,
     dst : {Zero, [Count |-> 2, Timeout |-> Dur(2, 0)]},
     src : {es \in UNION {[1..n -> [name : {"Count", "Timeout", "comment", "Other"},
                                    src : FieldSources]] : n \in 0..MaxCount} :
                \A a, b \in DOMAIN es : a # b => es[a].name # es[b].name}]

\* setInt: the error returned and the value dst holds afterwards.
setInt(dst, src) ==
    CASE src.kind = "Bool" -> [err |-> "nil", dst |-> IF src.n # 0 THEN 1 ELSE 0]
      [] src.kind \in {"Int", "Int64", "Duration"} -> [err |-> "nil", dst |-> src.n]
      [] src.kind = "Float64" -> [err |-> "nil", dst |-> src.n \div 2]
      [] src.kind = "String" ->
            IF src.unit = "" THEN [err |-> "nil", dst |-> src.n]
            ELSE [err |-> "cannot set", dst |-> dst]

\* setStruct, one pass of its loop over the keys of the source: the error
\* and the struct x afterwards.
setStructKey(x, e, strict) ==
    CASE e.name = "Count" ->
            LET r == setInt(x.Count, e.src)
            IN [err |-> r.err, x |-> [x EXCEPT !.Count = r.dst]]
      [] e.name = "Timeout" ->
            LET r == setDuration(x.Timeout, e.src)
            IN [err |-> r.err, x |-> [x EXCEPT !.Timeout = r.dst]]
      [] OTHER ->
            IF e.name = "comment" \/ ~strict
            THEN [err |-> "nil", x |-> x]
            ELSE [err |-> "unknown field", x |-> x]

\* A variant that populates the destination itself.
FilledInPlace(dst, x) == x

\* recFillWith is given the new value x, not the destination: what the
\* destination holds when one more key has been populated into x.
Filled(dst, x) == dst

\* x := reflect.New(dv.Type()).Elem()
PopulateNew ==
    /\ call.op = "populate"
    /\ result = NoResult
    /\ result' = [done |-> FALSE, err |-> "nil", dst |-> call.dst, x |-> Zero,
                  next |-> 1]
    /\ UNCHANGED <<suiteVars, call, disk>>

\* recFillWith(x, sv, ..), key by key; an error ends Strict and Lax.
PopulateKey ==
    /\ call.op = "populate"
    /\ result # NoResult
    /\ ~result.done
    /\ result.next <= Len(call.src)
    /\ LET r == setStructKey(result.x, call.src[result.next], call.strict)
       IN result' = [done |-> r.err # "nil", err |-> r.err,
                     dst |-> Filled(result.dst, r.x), x |-> r.x,
                     next |-> result.next + 1]
    /\ UNCHANGED <<suiteVars, call, disk>>

\* dv.Elem().Set(x.Elem()); return nil
PopulateSet ==
    /\ call.op = "populate"
    /\ result # NoResult
    /\ ~result.done
    /\ result.next > Len(call.src)
    /\ result' = [result EXCEPT !.done = TRUE, !.dst = result.x]
    /\ UNCHANGED <<suiteVars, call, disk>>
\* ---------------------------------------------------------------------
\* lcm and lcmOf.  The map vars is given as the sequence of the lengths of
\* its value lists, in the order the range statement visits them.  The
\* result holds the locals: n of lcmOf in ret, the position k of its loop,
\* and, while lcm is in its loop, m, n, a and b.
LcmCalls ==
    [op : {"lcm"}, m : 0..MaxLen, n : 0..MaxLen]
        \cup [op : {"lcmOf"},
              lens : UNION {[1..c -> 0..MaxLen] : c \in 0..MaxCount}]

\* a, b := m, n
LcmLoop(m, n, ret, k) ==
    [done |-> FALSE, ret |-> ret, k |-> k, loop |-> TRUE,
     m |-> m, n |-> n, a |-> m, b |-> n]

\* lcm is called, or lcmOf is: n := 0
LcmEnter ==
    /\ call.op \in {"lcm", "lcmOf"}
    /\ result = NoResult
    /\ result' = IF call.op = "lcm"
                 THEN LcmLoop(call.m, call.n, 0, 0)
                 ELSE [LcmLoop(0, 0, 0, 1) EXCEPT !.loop = FALSE]
    /\ UNCHANGED <<suiteVars, call, disk>>

\* for a != b { if a < b { a += m } else { b += n } }
LcmPass ==
    /\ call.op \in {"lcm", "lcmOf"}
    /\ result # NoResult
    /\ result.loop
    /\ result.a # result.b
    /\ result' = IF result.a < result.b
                 THEN [result EXCEPT !.a = @ + result.m]
                 ELSE [result EXCEPT !.b = @ + result.n]
    /\ UNCHANGED <<suiteVars, call, disk>>

\* return a
LcmReturn ==
    /\ call.op \in {"lcm", "lcmOf"}
    /\ result # NoResult
    /\ result.loop
    /\ result.a = result.b
    /\ result' = [result EXCEPT !.loop = FALSE, !.ret = result.a,
                                !.done = (call.op = "lcm")]
    /\ UNCHANGED <<suiteVars, call, disk>>

\* lcmOf, one pass of the loop over vars
LcmOfRange ==
    /\ call.op = "lcmOf"
    /\ result # NoResult
    /\ ~result.done
    /\ ~result.loop
    /\ result.k <= Len(call.lens)
    /\ result' = IF result.ret = 0
                 THEN [result EXCEPT !.ret = call.lens[result.k], !.k = @ + 1]
                 ELSE LcmLoop(result.ret, call.lens[result.k], result.ret,
                              result.k + 1)
    /\ UNCHANGED <<suiteVars, call, disk>>

\* lcmOf: return n
LcmOfReturn ==
    /\ call.op = "lcmOf"
    /\ result # NoResult
    /\ ~result.done
    /\ ~result.loop
    /\ result.k > Len(call.lens)
    /\ result' = [result EXCEPT !.done = TRUE]
    /\ UNCHANGED <<suiteVars, call, disk>>
PureCalls ==
    FullfilledCalls \cup XMLCalls \cup BashCalls \cup NowCalls
    \cup ReplacerCalls \cup DurationCalls \cup PopulateCalls
    \cup LcmCalls

\* One function is applied to one input.
InitPure ==
    /\ SuiteIdle
    /\ result = NoResult
    /\ \/ (call \in PureCalls /\ disk = NoDisk)
       \/ (call \in FileCalls /\ disk \in Disks)

NextPure ==
    \/ ApplyFullfilled
    \/ ExecuteXML
    \/ ExecuteFile
    \/ ExecuteBash
    \/ ResolveNow
    \/ ApplyNewReplacer
    \/ ApplySetDuration
    \/ PopulateNew
    \/ PopulateKey
    \/ PopulateSet
    \/ LcmEnter
    \/ LcmPass
    \/ LcmReturn
    \/ LcmOfRange
    \/ LcmOfReturn

PureSpec == InitPure /\ [][NextPure]_vars

\* =====================================================================
\* Positions of the elements in rs.tests: Setup first, then Main, Teardown.
InSetup(k) == k >= 1 /\ k <= setup

InSetupOrMain(k) == k >= 1 /\ k <= setup + main

InTeardown(k) == k > setup + main /\ k <= setup + main + teardown

\* The iteration has finished the element and is about to record it.
Finished == pc = "update"

\* An earlier Setup element left the executor with a failure.
SetupFailedBefore == \E j \in 1..Len(Tests) : InSetup(j) /\ Tests[j].ex > Pass

\* An earlier Setup element ended with a final status other than Pass.
SetupNotPassedBefore == \E j \in 1..Len(Tests) : InSetup(j) /\ Tests[j].status # Pass

\* The highest status of the reports received, NotRun if there are none.
HighestReport ==
    IF mockResult = <<>> THEN NotRun
    ELSE CHOOSE st \in {mockResult[k].status : k \in 1..Len(mockResult)} :
            \A k \in 1..Len(mockResult) : mockResult[k].status <= st

\* The final status of an element the executor left Skipped: Skipped, unless
\* a report of its own mocks had a higher status, which mock reconciliation
\* then gives the element (a Pass so received still turns into Fail when
\* another mock was not called).
SkippedOrRaisedByMocks ==
    IF HighestReport <= Skipped
    THEN test.status = Skipped
    ELSE \/ test.status = HighestReport
         \/ (HighestReport = Pass /\ test.status = Fail)

C2_EveryTeardownRuns == (Finished /\ InTeardown(test.id)) => test.ran

\* C2 (amended): every Teardown element that is enabled and not Bogus before
\* execution is run, also when Setup failed and the rest was skipped.
C2_EnabledTeardownRuns ==
    (Finished /\ InTeardown(test.id) /\ ~rt.disabled /\ test.pre # Bogus) => test.ran

C2_Witness ==
    /\ Finished
    /\ InTeardown(test.id)
    /\ SetupFailedBefore
    /\ test.ran

\* C3: after Execute, Suite.Status is the maximum of the final statuses of the
\* Setup and Main elements (NotRun when there are none); Teardown elements are
\* recorded in Suite.Tests but never change Suite.Status.
C3_StatusFromSetupAndMain ==
    pc = "done" =>
        /\ Len(Tests) = setup + main + teardown
        /\ \A k \in 1..Len(Tests) : InSetupOrMain(k) => Tests[k].status <= SuiteStatus
        /\ \/ \E k \in 1..Len(Tests) : InSetupOrMain(k) /\ Tests[k].status = SuiteStatus
           \/ (SuiteStatus = NotRun /\ setup + main = 0)

C3_Witness ==
    /\ pc = "done"
    /\ setup + main > 0
    /\ \E k \in 1..Len(Tests) : InTeardown(k) /\ Tests[k].status > SuiteStatus

\* C4: the suite scope is written only when the element is finished and its
\* final status, after mock reconciliation, is Pass; an element that ends
\* Skipped, Fail, Error or Bogus leaves suite.globals unchanged.
C4_WriteOnlyOnPass ==
    [][globals' # globals => (Finished /\ test.status = Pass)]_vars

C4_Witness ==
    /\ Len(Tests) = 1
    /\ Tests[1].status = Pass
    /\ globals[VarOf(1)] = 1

\* The mocks of the element were started, stopped and analysed.
Reconciled == Finished /\ stopMocks = "stopped"

Outcomes == subsuite.Tests

Appended == SubSeq(Outcomes, Len(mockResult) + 1, Len(Outcomes))

Invocations(serial) ==
    { k \in 1..Len(mockResult) :
        mockResult[k].name = [prefix |-> "Mock ", serial |-> serial] }

NotCalledOutcomes(serial) ==
    { k \in 1..Len(Appended) :
        /\ Appended[k].name = [prefix |-> "Mock ", serial |-> serial]
        /\ Appended[k].status = Error
        /\ Appended[k].error = "mock not called" }

LastPass(v) ==
    LET ks == { k \in 1..Len(Tests) : Tests[k].status = Pass /\ v \in DOMAIN Extract(k) }
    IN IF ks = {} THEN 0 ELSE CHOOSE k \in ks : \A j \in ks : j <= k

InProgress == pc \in {"startMocks", "exec", "stopSend", "stopRecv", "close",
                      "waitDone", "analyse", "update"}

\* C7: the scope an element is converted with holds, for every variable, the
\* value extracted by the last earlier element whose final status was Pass:
\* it is built after the element before has finished and written its values.
C7_ScopeSeesEarlierPasses ==
    InProgress =>
        /\ test.id = Len(Tests) + 1
        /\ \A v \in VarNames : test.scope[v] = LastPass(v)

C7_Witness ==
    /\ InProgress
    /\ test.id = 2
    /\ Tests[1].status = Pass
    /\ test.scope[VarOf(1)] = 1

\* C8 (as claimed): for every element with declared mocks the mock server runs
\* when the executor is called and until it has returned, and is stopped before
\* the next element is converted; never two servers run.
C8_MocksAroundExecutor ==
    /\ Cardinality(running) <= 1
    /\ (pc \in {"exec", "stopSend"} /\ rt.nmocks > 0) => running = {test.id}
    /\ pc \in {"convert", "startMocks", "close", "waitDone", "analyse", "update",
               "summary", "done"} => running = {}

\* C8 (amended): for every element with declared mocks that could be started
\* the mock server runs when the executor is called and until it has returned,
\* and is stopped before the next element is converted; an element whose mocks
\* could not be started is Bogus and has no server; never two servers run.
C8_StartedMocksAroundExecutor ==
    /\ Cardinality(running) <= 1
    /\ (pc \in {"exec", "stopSend"} /\ rt.nmocks > 0) =>
          \/ running = {test.id}
          \/ (running = {} /\ stopMocks = "nil" /\ test.pre = Bogus)
    /\ (pc \in {"exec", "stopSend", "stopRecv"} /\ stopMocks # "nil") => running = {test.id}
    /\ pc \in {"convert", "startMocks", "close", "waitDone", "analyse", "update",
               "summary", "done"} => running = {}

C8_Witness ==
    /\ pc = "exec"
    /\ running = {2}
    /\ calls = 1
    /\ inflight = EmptyBag
    /\ received = <<>>

\* C9: the consumer appends every report it received exactly once and in the
\* order received, and when analyseMocks reads the list the channel is closed,
\* the consumer has finished, no report is in flight or unappended.
C9_ReportsAppendedBeforeAnalysis ==
    /\ received = mockResult \o held
    /\ pc = "analyse" =>
          /\ monitor = "closed"
          /\ consumer = "done"
          /\ inflight = EmptyBag
          /\ mockResult = received

C9_Witness ==
    /\ pc = "analyse"
    /\ Len(mockResult) = 2
    /\ mockResult[1] # mockResult[2]

\* The executor skips the element.
SkippedByExecutor ==
    rt.disabled \/ (SetupFailedBefore /\ InSetupOrMain(test.id))

\* C10 (as claimed): a test that is Bogus before execution is never run and its
\* final status is Bogus, whatever the outcome of the elements before it.
C10_BogusStaysBogus ==
    (Finished /\ test.pre = Bogus) => (~test.ran /\ test.status = Bogus)

\* C10 (amended): a test that is Bogus before execution is never run; its final
\* status is Bogus unless the executor skips it (it is disabled, or it is a
\* Setup or Main element after a failed Setup element): then the executor
\* leaves it Skipped, its final status unless a report of its own mocks had a
\* higher status.
C10_BogusNeverRun ==
    (Finished /\ test.pre = Bogus) =>
        /\ ~test.ran
        /\ IF SkippedByExecutor
           THEN test.ex = Skipped /\ SkippedOrRaisedByMocks
           ELSE test.status = Bogus

C10_Witness ==
    /\ Finished
    /\ test.pre = Bogus
    /\ SetupFailedBefore
    /\ InTeardown(test.id)
    /\ test.status = Bogus

InMain(k) == k > setup /\ k <= setup + main

\* Every Setup element is recorded with final status Pass.
AllSetupPassed ==
    /\ Len(Tests) >= setup
    /\ \A k \in 1..setup : Tests[k].status = Pass

\* The elements are handled one after the other in the order of rs.tests
\* (Setup, Main, Teardown): the element in progress follows the recorded ones
\* and the executor was called once for each of them.
DeclarationOrder ==
    /\ \A k \in 1..Len(Tests) : Tests[k].id = k
    /\ InProgress =>
          /\ test.id = Len(Tests) + 1
          /\ i = (IF pc \in {"startMocks", "exec"} THEN Len(Tests) ELSE test.id)

\* C11 (as claimed): if every Setup element ends with Pass, the Main elements
\* are run in declaration order after the Setup and before the Teardown
\* elements, and no Main element ends with status Skipped.
C11_NoMainSkipped ==
    /\ DeclarationOrder
    /\ (Finished /\ InMain(test.id) /\ AllSetupPassed) =>
          (test.ran /\ test.status # Skipped)

\* C11 (amended): if every Setup element ends with Pass, the Main elements are
\* handled in declaration order after the Setup and before the Teardown
\* elements; every enabled Main element is run unless it is Bogus before
\* execution and none of them ends Skipped; a disabled Main element is not run
\* and the executor leaves it Skipped.
C11_EnabledMainNotSkipped ==
    /\ DeclarationOrder
    /\ (Finished /\ InMain(test.id) /\ AllSetupPassed) =>
          IF rt.disabled
          THEN ~test.ran /\ test.ex = Skipped /\ SkippedOrRaisedByMocks
          ELSE /\ test.status # Skipped
               /\ test.ex # Skipped
               /\ test.ran <=> (test.pre # Bogus)

C11_Witness ==
    /\ Finished
    /\ setup = 1
    /\ InMain(test.id)
    /\ AllSetupPassed
    /\ test.ran
    /\ test.status = Fail

\* The jars given to the tests so far.
JarsGiven ==
    {Tests[k].jar : k \in 1..Len(Tests)} \cup (IF InProgress THEN {test.jar} ELSE {})

\* C12: with KeepCookies set every test is given one and the same jar, the
\* caller's or a private one when the caller passed none; with KeepCookies
\* not set every test is given no jar, also when the caller passed one.
C12_OneJarIffKeepCookies ==
    \A j \in JarsGiven :
        j = (IF KeepCookies
             THEN (IF jar = "caller" THEN "caller" ELSE "private")
             ELSE "nil")

C12_Witness ==
    /\ KeepCookies
    /\ jar = "nil"
    /\ Len(Tests) = 2
    /\ Tests[1].status = Bogus
    /\ Tests[1].jar = "private"
    /\ Tests[2].jar = "private"

\* Suite.Status, Suite.Error and FinalVariables as Iterate leaves them for
\* the elements recorded.
Finalized ==
    /\ \A k \in 1..Len(Tests) : Tests[k].status <= SuiteStatus
    /\ \/ \E k \in 1..Len(Tests) : Tests[k].status = SuiteStatus
       \/ (SuiteStatus = NotRun /\ Tests = <<>>)
    /\ Len(SuiteError) = Cardinality({k \in 1..Len(Tests) : Tests[k].error # "nil"})
    /\ \A k \in 1..Len(Tests) :
          Tests[k].error # "nil" =>
              \E e \in 1..Len(SuiteError) :
                  SuiteError[e] = [test |-> k, error |-> Tests[k].error]
    /\ FinalVariables = [v \in VarNames |-> LastPass(v)]

\* The executor said ErrAbortExecution for the element in progress.
Aborting == exstat = ErrAbortExecution

\* C13: when the executor returns ErrAbortExecution for an element, its mocks
\* are still stopped and reconciled and the element is recorded; no later
\* element is converted, has mocks started or is passed to the executor; and
\* Suite.Status, Suite.Error and FinalVariables are finalized from the elements
\* recorded so far.
C13_AbortStopsAfterCurrent ==
    /\ [](Aborting => pc \in {"stopSend", "stopRecv", "close", "waitDone",
                               "analyse", "update"})
    /\ []((Aborting /\ pc = "update") =>
             /\ running = {}
             /\ stopMocks # "nil" =>
                   /\ stopMocks = "stopped"
                   /\ monitor = "closed"
                   /\ consumer = "done"
                   /\ SubSeq(subsuite.Tests, 1, Len(mockResult)) = mockResult
                   /\ Len(subsuite.Tests) >= rt.nmocks - Len(mockResult))
    /\ [][(Aborting /\ pc = "update") =>
             (pc' = "break" /\ Tests' = Append(Tests, Recorded(test)))]_vars
    /\ [][Aborting => (i' = i /\ (Tests' # Tests => pc = "update"))]_vars
    /\ [](pc = "break" => (i = Len(Tests) /\ test = NoTest /\ running = {}))
    /\ [][pc = "break" => (pc' = "summary" /\ Tests' = Tests /\ i' = i)]_vars
    /\ [][pc = "summary" => (Tests' = Tests /\ i' = i)]_vars
    /\ [](pc = "summary" => (Finalized /\ test = NoTest /\ running = {}))

C13_Witness ==
    /\ pc = "summary"
    /\ main = 2
    /\ Len(Tests) = 1
    /\ calls = 1
    /\ Tests[1].ex = Pass
    /\ Tests[1].status = Fail
    /\ SuiteStatus = Fail

\* Suite.Error holds exactly the final errors of the elements in ks.
ErrorsAreThoseOf(ks) ==
    /\ Len(SuiteError) = Cardinality({k \in ks : Tests[k].error # "nil"})
    /\ \A k \in ks :
          Tests[k].error # "nil" =>
              \E e \in 1..Len(SuiteError) :
                  SuiteError[e] = [test |-> k, error |-> Tests[k].error]

\* C14 (as claimed): after a suite run Suite.Error is nil iff no test of the
\* suite carries an error, and otherwise holds the final error of every test
\* of the suite that carries one.
C14_ErrorsOfAllTests ==
    pc = "done" =>
        /\ (SuiteError = <<>>) <=> (\A k \in 1..Len(Tests) : Tests[k].error = "nil")
        /\ ErrorsAreThoseOf(1..Len(Tests))

\* C14 (amended): when Iterate returns, Suite.Error is nil iff no test carries
\* an error and otherwise holds the final error of every test that carries
\* one; when Execute returns, that holds for the Setup and Main tests only:
\* the errors of the Teardown tests are not in Suite.Error.
C14_ErrorsOfSetupAndMain ==
    /\ pc = "summary" =>
          /\ (SuiteError = <<>>) <=> (\A k \in 1..Len(Tests) : Tests[k].error = "nil")
          /\ ErrorsAreThoseOf(1..Len(Tests))
    /\ pc = "done" =>
          /\ (SuiteError = <<>>) <=>
                (\A k \in 1..Len(Tests) : InSetupOrMain(k) => Tests[k].error = "nil")
          /\ ErrorsAreThoseOf({k \in 1..Len(Tests) : InSetupOrMain(k)})

C14_Witness ==
    /\ pc = "done"
    /\ Len(SuiteError) = 1
    /\ SuiteError[1].test = 1
    /\ InTeardown(2)
    /\ Tests[2].error # "nil"
    /\ Tests[1].status = Skipped

\* The reports of requests that matched no mock, among those received.
StrayCalls == { k \in 1..Len(mockResult) : mockResult[k].name.prefix = "Not Found " }

\* C15 (as claimed): a request that matches no declared mock produces one
\* report named "Not Found <url>", recorded in the mock results as a Fail
\* outcome, which fails a test whose own run passed.
C15_StrayCallRecordedAsFail ==
    /\ \A k \in StrayCalls : mockResult[k].status = Fail
    /\ (Reconciled /\ test.ex = Pass /\ StrayCalls # {}) => test.status > Pass

\* A test that passed, with its one mock called and passing and one stray
\* call: the stray call is recorded without a status and the test stays Pass.
C15_Witness ==
    /\ Reconciled
    /\ rt.nmocks = 1
    /\ Len(mockResult) = 2
    /\ Cardinality(StrayCalls) = 1
    /\ \E k \in StrayCalls : mockResult[k].status = NotRun
    /\ subsuite.Status = Pass
    /\ test.ex = Pass
    /\ test.status = Pass

\* The handlers blocked in their send on the monitor channel.
BlockedHandlers == BagCardinality(inflight)

\* C16 (as claimed): a handler that reports on the monitor channel is never
\* blocked by it: its send completes however far the consumer has got, also
\* while the consumer is busy with the report before.
C16_HandlerNeverBlocked == ~(BlockedHandlers > 0 /\ consumer = "append")

\* C16 (amended): the monitor channel is unbuffered and holds no report
\* itself; a handler's send blocks until the one consumer goroutine receives
\* its report, one report at a time, which the consumer does when it has
\* appended the report before.
C16_SendWaitsForConsumer ==
    /\ [](buffer = <<>>)
    /\ [](Len(held) = (IF consumer = "append" THEN 1 ELSE 0))
    /\ [][BlockedHandlers' < BlockedHandlers =>
             /\ consumer = "recv"
             /\ consumer' = "append"
             /\ monitor = "open"
             /\ inflight = inflight' (+) SetToBag({held'[1]})]_vars

C16_Witness ==
    /\ BlockedHandlers = 1
    /\ consumer = "append"
    /\ rt.nmocks = 2
    /\ mockResult = <<>>
    /\ \E r \in BagToSet(inflight) : r # held[1]

\* The positions at which the text, or a match of the regular expression,
\* starts in the subject.
Occurrences(s, text) ==
    {k \in 1..Len(s) : k + Len(text) - 1 <= Len(s)
                       /\ \A j \in 1..Len(text) : s[k + j - 1] = text[j]}

Matches(s, re) ==
    {k \in 1..Len(s) : k + Len(re) - 1 <= Len(s)
                       /\ \A j \in 1..Len(re) : s[k + j - 1] \in re[j]}

\* The largest number of occurrences of length n no two of which overlap.
NonOverlapping(occ, n) ==
    LET disjoint == {P \in SUBSET occ :
                        \A p, q \in P : p < q => p + n <= q}
    IN CHOOSE m \in 0..Cardinality(occ) :
          /\ \E P \in disjoint : Cardinality(P) = m
          /\ \A P \in disjoint : Cardinality(P) <= m

\* What Count asks of the occurrences of the text or pattern.
CountClause(count, occ, n) ==
    IF count = 0 THEN occ # {}
    ELSE IF count > 0 THEN NonOverlapping(occ, n) = count
    ELSE occ = {}

AllClauses(c, s) ==
    /\ c.Prefix # <<>> => (Len(c.Prefix) <= Len(s)
                            /\ \A j \in 1..Len(c.Prefix) : s[j] = c.Prefix[j])
    /\ c.Suffix # <<>> => (Len(c.Suffix) <= Len(s)
                            /\ \A j \in 1..Len(c.Suffix) :
                                  s[Len(s) - Len(c.Suffix) + j] = c.Suffix[j])
    /\ c.Contains # <<>> =>
          CountClause(c.Count, Occurrences(s, c.Contains), Len(c.Contains))
    /\ c.Regexp.set =>
          CountClause(c.Count, Matches(s, c.Regexp.pat), Len(c.Regexp.pat))
    /\ c.Min > 0 => Len(s) >= c.Min
    /\ c.Max > 0 => Len(s) <= c.Max

\* C17: Fullfilled returns nil iff every configured clause holds, where the
\* Contains and the Regexp clause hold, with the one Count of the condition,
\* for Count = 0 iff the text (pattern) occurs at least once, for Count > 0 iff
\* the number of its non-overlapping occurrences (matches) is exactly Count,
\* and for Count < 0 iff it does not occur at all.
C17_NilIffAllClauses ==
    (call.op = "Fullfilled" /\ result.done) =>
        ((result.err = "nil") <=> AllClauses(call.c, call.s))

\* "aa" occurs at two overlapping places in "aaa", which count as one.
C17_Witness ==
    /\ call.op = "Fullfilled"
    /\ result.done
    /\ result.err = "nil"
    /\ call.c.Contains = <<"a", "a">>
    /\ call.c.Count = 1
    /\ call.s = <<"a", "a", "a">>
    /\ call.c.Regexp.set

\* C18 (as claimed): XML.Execute returns CantCheck when the body could not be
\* read, fails when the path selects no element, and otherwise fails iff the
\* string value of the selected element does not fulfil the Condition.
C18_FailsIffConditionUnfulfilled ==
    (call.op = "XML" /\ result.done) =>
        /\ call.bodyErr => result.err = "CantCheck"
        /\ (~call.bodyErr /\ call.parses /\ ~call.selected) => result.err # "nil"
        /\ (~call.bodyErr /\ call.parses /\ call.selected) =>
              ((result.err # "nil") <=> ~AllClauses(call.c, call.s))

\* The element selected is "b", the Condition asks for the prefix "a", and
\* the check passes.
C18_Witness ==
    /\ call.op = "XML"
    /\ result.done
    /\ ~call.bodyErr
    /\ call.parses
    /\ call.selected
    /\ call.s = <<"b">>
    /\ call.c.Prefix = <<"a">>
    /\ result.err = "nil"

Local == call.Host \in {"", "localhost", "127.0.0.1"}

\* The file, or for PUT its directory, is missing.
Missing ==
    IF call.Method = "PUT" THEN disk.dir = "missing" ELSE ~disk.exists

\* The file is there (for PUT: may be created) but the operation is denied.
Denied ==
    IF call.Method = "GET" THEN disk.exists /\ ~disk.readable
    ELSE IF call.Method = "PUT"
         THEN \/ (disk.exists /\ ~disk.writable)
              \/ (~disk.exists /\ disk.dir = "readonly")
    ELSE disk.exists /\ disk.dir = "readonly"

\* C19 (as claimed): a file:// request on the local host returns no error and
\* reports a failing file operation through the status only, 404 when the file
\* is missing and 403 when the operation is denied (a failed operation leaves
\* the disk as it was).
C19_MissingIs404DeniedIs403 ==
    (call.op = "file" /\ result.done /\ Local) =>
        /\ result.err = "nil"
        /\ result.BodyErr = "nil"
        /\ result.StatusCode \in {200, 403, 404}
        /\ result.StatusCode # 200 =>
              /\ (result.StatusCode = 404) <=> Missing
              /\ (result.StatusCode = 403) <=> Denied

\* What a file:// request on the local host makes of the disk.
FileOutcome ==
    /\ result'.err = "nil"
    /\ call.Method = "GET" =>
          /\ disk' = disk
          /\ result'.StatusCode = (IF disk.exists /\ disk.readable THEN 200 ELSE 404)
          /\ result'.StatusCode = 200 =>
                IF call.readErr
                THEN result'.BodyErr # "nil"
                ELSE result'.BodyErr = "nil" /\ result'.BodyStr = disk.content
    /\ call.Method = "PUT" =>
          /\ result'.BodyErr = "nil"
          /\ result'.StatusCode = (IF ~Missing /\ ~Denied THEN 200 ELSE 403)
          /\ IF result'.StatusCode = 200
             THEN disk'.exists /\ disk'.content = call.Body /\ disk'.dir = disk.dir
             ELSE disk' = disk
    /\ call.Method = "DELETE" =>
          /\ result'.BodyErr = "nil"
          /\ result'.StatusCode = (IF ~disk.exists THEN 404
                                   ELSE IF disk.dir = "readonly" THEN 403
                                   ELSE 200)
          /\ IF result'.StatusCode = 200
             THEN ~disk'.exists /\ disk'.dir = disk.dir
             ELSE disk' = disk

\* C19 (amended): Execute returns an error for a remote host only, and then
\* touches nothing.  On the local host GET reads the file and answers 200 if
\* it could be opened (a later read error is left in BodyErr) and 404 if not,
\* be it missing or unreadable; PUT writes the body and answers 200, or 403 on
\* any failure, a missing directory included; DELETE answers 404 if the file
\* is missing, 403 if it cannot be removed, else removes it and answers 200.
C19_StatusPerMethod ==
    [][(call.op = "file" /\ ~result.done /\ result'.done) =>
          IF Local
          THEN FileOutcome
          ELSE result'.err # "nil" /\ disk' = disk]_vars

\* GET of a file that exists but may not be read is answered 404.
C19_Witness ==
    /\ call.op = "file"
    /\ result.done
    /\ Local
    /\ call.Method = "GET"
    /\ disk.exists
    /\ ~disk.readable
    /\ result.StatusCode = 404

\* The script was written to its file and started.
Started == call.temp = "nil" /\ call.start = "nil"

\* The script was killed because the timeout of the request expired.
Cancelled == call.wait = "signal: killed" /\ call.expired

SecondsIn(unit) ==
    CASE unit = "s" -> 1
      [] unit = "m" -> 60
      [] unit = "h" -> 3600
      [] unit = "d" -> 86400

Signed(sign, n) == IF sign = "-" THEN 0 - n ELSE n

\* C21 (as claimed): resolving {{NOW +/- N unit}} at time now yields the
\* formatted time now + N * u seconds (minus for '-'), u being 1 for s, 60
\* for m, 3600 for h and 86400 for d; without a layout the layout is RFC1123
\* and without an offset the time is now itself.
C21_OffsetIsNTimesUnit ==
    (call.op = "NOW" /\ result.done) =>
        /\ result.err = "nil"
        /\ result.value.layout =
              (IF call.layout = "" THEN RFC1123 ELSE call.layout)
        /\ call.delta = NoDelta => result.value.unix = call.now
        /\ call.delta # NoDelta =>
              result.value.unix =
                  call.now + Signed(call.delta.sign,
                                    Atoi(call.delta.digits) * SecondsIn(call.delta.unit))

\* {{NOW + 1d}} has been resolved, to a time 37440 seconds after now.
C21_Witness ==
    /\ call.op = "NOW"
    /\ result.done
    /\ call.delta # NoDelta
    /\ call.delta.unit = "d"
    /\ call.delta.sign = "+"
    /\ call.delta.digits = <<1>>
    /\ result.value.unix = call.now + 37440

\* ---------------------------------------------------------------------
\* A decimal integer: an optional sign and one decimal digit at least.
Decimal(s) ==
    LET body == IF s # <<>> /\ s[1] \in {"+", "-"} THEN Tail(s) ELSE s
    IN body # <<>> /\ \A p \in DOMAIN body : body[p] \in DecimalDigits

\* The entries of vars whose name begins with '#'.
IntegerEntries == {e \in {call.vars[p] : p \in DOMAIN call.vars} : e.k[1] = "#"}

StringEntries == {call.vars[p] : p \in DOMAIN call.vars} \ IntegerEntries

\* The pairs old, new a replacer substitutes for strings.
StringPairs(str) == {<<str[2 * j - 1], str[2 * j]>> : j \in 1..(Len(str) \div 2)}

\* C22: in newReplacer a name beginning with '#' yields an integer
\* substitution only (old integer -> new integer) and never a {{name}}
\* string substitution, every other name yields a string substitution only;
\* if the rest of a '#' name or its value is not a decimal integer,
\* newReplacer returns an error and no usable replacer.
C22_HashNamesAreIntegerSubstitutions ==
    (call.op = "newReplacer" /\ result.done) =>
        LET r == result.repl
        IN IF \A e \in IntegerEntries : Decimal(Tail(e.k)) /\ Decimal(e.v)
           THEN /\ r.err = "nil"
                /\ Len(r.str) = 2 * Cardinality(StringEntries)
                /\ StringPairs(r.str) =
                      {<<(<<"{{">> \o e.k \o <<"}}">>), e.v>> : e \in StringEntries}
                /\ r.fn = {<<ParseInt(Tail(e.k)).n, ParseInt(e.v).n>> :
                              e \in IntegerEntries}
           ELSE /\ r.err # "nil"
                /\ r.str = "nil"
                /\ r.fn = "nil"

\* A replacer was made of #1 = -2 and a = 1.
C22_Witness ==
    /\ call.op = "newReplacer"
    /\ result.done
    /\ result.repl.err = "nil"
    /\ result.repl.fn = {<<1, 0 - 2>>}
    /\ result.repl.str = <<(<<"{{", "a", "}}">>), <<"1">>>>

\* ---------------------------------------------------------------------
\* C23 (as claimed): a time.Duration populated from an integer or a float
\* takes that number as the duration in nanoseconds, populated from a string
\* it takes the value of time.ParseDuration; each of these kinds of source
\* populates without error.
C23_DurationFromNumberOrString ==
    (call.op = "setDuration" /\ result.done) =>
        /\ call.src.kind \in {"Int64", "Int"} =>
              (result.err = "nil" /\ result.dst = Dur(0, call.src.n))
        /\ call.src.kind = "Float64" =>
              (result.err = "nil" /\ result.dst = Dur(0, call.src.n \div 2))
        /\ (call.src.kind = "String" /\ ParseDuration(call.src).err = "nil") =>
              (result.err = "nil" /\ result.dst = ParseDuration(call.src).d)

\* A duration was populated from the float 1.5: it holds 1.5 seconds, and an
\* error was returned.
C23_Witness ==
    /\ call.op = "setDuration"
    /\ result.done
    /\ call.src.kind = "Float64"
    /\ call.src.n = 3
    /\ result.dst = Dur(1, 500000000)
    /\ result.err # "nil"

\* ---------------------------------------------------------------------
\* The assignment g overlaid with the values extracted by the elements k..
\* of tests whose final status is Pass, in the order of the elements.
RECURSIVE Overlaid(_, _, _)
Overlaid(g, tests, k) ==
    IF k > Len(tests) THEN g
    ELSE Overlaid(IF tests[k].status = Pass
                  THEN Extract(tests[k].id) @@ g
                  ELSE g,
                  tests, k + 1)

InitialVariables == [n \in VarNames |-> 0]

\* C24: after Suite.Iterate, FinalVariables is the initial assignment
\* overlaid, in the order of the elements (later writes win), with the
\* values extracted by exactly the elements whose final status was Pass;
\* Suite.Variables is the initial assignment throughout.
C24_FinalVariablesOverlayPasses ==
    /\ Variables = InitialVariables
    /\ pc \in {"summary", "done"} =>
          FinalVariables = Overlaid(InitialVariables, Tests, 1)

\* Both elements passed and wrote A: the value of the second is the final one.
C24_Witness ==
    /\ pc = "summary"
    /\ Len(Tests) = 2
    /\ Tests[1].status = Pass
    /\ Tests[2].status = Pass
    /\ FinalVariables = [n \in VarNames |-> 2]
    /\ Variables = InitialVariables

\* ---------------------------------------------------------------------
\* C25: mock reconciliation never lowers a test's status: after analyseMocks
\* the status is at least the status the test had before and at least the
\* status of every received report; beyond taking the highest of these, the
\* only change is Pass becoming Fail when the sub-suite's status exceeds
\* Pass.
C25_ReconciliationNeverLowers ==
    Reconciled =>
        /\ test.status >= test.ex
        /\ \A k \in 1..Len(mockResult) : test.status >= mockResult[k].status
        /\ \/ test.status = Max(test.ex, HighestReport)
           \/ /\ Max(test.ex, HighestReport) = Pass
              /\ test.status = Fail
              /\ subsuite.Status > Pass

\* A test that ended with Error got the report of a failed mock, and is
\* still Error.
C25_Witness ==
    /\ Reconciled
    /\ test.ex = Error
    /\ \E k \in 1..Len(mockResult) : mockResult[k].status = Fail
    /\ test.status = Error

C27_CounterIsIndexOfElement ==
    /\ \A k \in 1..Len(Tests) : Tests[k].id = k
    /\ pc = "convert" => i = Len(Tests)
    /\ InProgress =>
          /\ test.id = Len(Tests) + 1
          /\ pc \in {"startMocks", "exec"} => i = test.id - 1
          /\ pc \notin {"startMocks", "exec"} => i = test.id
    /\ pc \in {"summary", "done"} => (Len(Tests) = N /\ i = N)

\* A suite whose first element was bogus and whose second was skipped has
\* been iterated: the executor counted both.
C27_Witness ==
    /\ pc = "done"
    /\ N = 2
    /\ Tests[1].ex = Bogus
    /\ Tests[2].ex = Skipped
    /\ i = 2

\* ---------------------------------------------------------------------
\* The element in work declares mocks and the executor skips its test.
SkippedWithMocks == Finished /\ test.ex = Skipped /\ rt.nmocks > 0

\* One outcome "mock not called" per declared mock, in the order of the mocks.
AllNotCalled == [k \in 1..rt.nmocks |-> NotCalled(k - 1)]

\* C28 (as claimed): an element that declares mocks but whose test is not
\* run (skipped after a setup failure, or disabled) still has its mocks
\* started before and stopped after the executor call; if none of them is
\* invoked the status stays Skipped and the sub-suite records one Error
\* outcome "mock not called" per declared mock.
C28_SkippedElementRunsItsMocks ==
    /\ (pc = "exec" /\ rt.nmocks > 0 /\ SkipCase(test, i + 1)) =>
          test.id \in running
    /\ SkippedWithMocks =>
          /\ stopMocks = "stopped"
          /\ running = {}
          /\ mockResult = <<>> =>
                (test.status = Skipped /\ subsuite.Tests = AllNotCalled)

\* C28 (amended): unless startMocks failed, which leaves the element without
\* servers and without a sub-suite, the mocks of an element whose test the
\* executor skips are started before and stopped after the executor call,
\* and if none is invoked the status stays Skipped while the sub-suite
\* records one Error outcome "mock not called" per declared mock.
C28_SkippedElementRunsStartedMocks ==
    /\ (pc = "exec" /\ rt.nmocks > 0 /\ SkipCase(test, i + 1)) =>
          \/ stopMocks = "serving" /\ test.id \in running
          \/ stopMocks = "nil" /\ running = {} /\ test.pre = Bogus
    /\ SkippedWithMocks =>
          /\ running = {}
          /\ test.status >= Skipped
          /\ IF test.pre = Bogus /\ stopMocks = "nil"
             THEN subsuite = EmptySuite /\ test.status = Skipped
             ELSE /\ stopMocks = "stopped"
                  /\ mockResult = <<>> =>
                        /\ test.status = Skipped
                        /\ subsuite.Tests = AllNotCalled
                        /\ subsuite.Status = Error

\* A skipped element with mocks none of which was called.
C28_Witness ==
    /\ SkippedWithMocks
    /\ stopMocks = "stopped"
    /\ mockResult = <<>>
    /\ test.status = Skipped
    /\ Len(subsuite.Tests) = rt.nmocks

\* ---------------------------------------------------------------------
\* C29: if populate.Strict or populate.Lax returns an error the destination
\* is left exactly as it was before the call; the destination is assigned
\* only after the whole source has been populated into a new value without
\* error.
C29_DestinationUntouchedOnError ==
    (call.op = "populate" /\ result # NoResult) =>
        /\ (result.done /\ result.err # "nil") => result.dst = call.dst
        /\ result.dst # call.dst =>
              /\ result.done
              /\ result.err = "nil"
              /\ result.next > Len(call.src)
              /\ result.dst = result.x

\* The second key of the source could not be populated; the first one had
\* been, into the new value, and the destination holds what it held.
C29_Witness ==
    /\ call.op = "populate"
    /\ result # NoResult
    /\ result.done
    /\ result.err # "nil"
    /\ result.next = 3
    /\ result.x # Zero
    /\ call.dst # Zero
    /\ result.dst = call.dst

\* ---------------------------------------------------------------------
\* The least common multiple of m and n; 0 if one of them is 0.
LeastCommonMultiple(m, n) ==
    IF m = 0 \/ n = 0 THEN 0
    ELSE CHOOSE x \in 1..(m * n) :
            /\ x % m = 0
            /\ x % n = 0
            /\ \A y \in 1..(x - 1) : y % m # 0 \/ y % n # 0

\* lcm, or lcmOf, is at work.
InLcm == call.op \in {"lcm", "lcmOf"} /\ result # NoResult

\* C30 (as claimed): lcm(m, n) terminates for all non-negative m and n and
\* returns their least common multiple, and lcmOf terminates for every map
\* and every order of its keys, also with empty value lists: a pass of the
\* loop of lcm raises a or b, neither of them ever exceeds the least common
\* multiple, and what lcm returns is the least common multiple.
C30_LcmTerminates ==
    InLcm =>
        /\ (result.loop /\ result.a < result.b) => result.m > 0
        /\ (result.loop /\ result.a > result.b) => result.n > 0
        /\ result.loop =>
              /\ result.a <= LeastCommonMultiple(result.m, result.n)
              /\ result.b <= LeastCommonMultiple(result.m, result.n)
        /\ (call.op = "lcm" /\ result.done) =>
              result.ret = LeastCommonMultiple(call.m, call.n)

\* lcmOf of a list of one value and an empty list, in this order, is in the
\* loop of lcm(1, 0), whose passes add 0 to b.
C30_Witness ==
    /\ InLcm
    /\ call.op = "lcmOf"
    /\ call.lens = <<1, 0>>
    /\ result.loop
    /\ result.a = 1
    /\ result.b = 0
    /\ result.n = 0
====
